---- MODULE Spec2Model ----
(***************************************************************************)
(* Model of savingsessions: the cached table of half-hourly readings       *)
(* (calculation.py, class Readings) and the baseline / reward calculation  *)
(* (calculation.py, class Calculation) as driven by streamlit_app.main.    *)
(*                                                                         *)
(* Timestamps are minutes since an epoch that is a Monday 00:00 UTC.       *)
(***************************************************************************)
EXTENDS Integers, Sequences, FiniteSets, TLC

\* ------------------------------------------------------------------ bounds
\* Longest sequence of free get_readings calls explored by SpecStore.
MaxCalls == 3
\* Longest list of saving sessions main() is run on.
MaxSessions == 2
\* Most next() calls a consumer makes on one progress generator in SpecTick.
MaxAdvances == 25

\* ------------------------------------------------------- program constants
HalfHourMinutes == 30
DayMinutes == 1440
WindowHH == 100
First == 100
EmptySpanHH == 99
MONDAY == 1
FRIDAY == 5
WeekdayDaysRequired == 10
WeekendDaysRequired == 4
PreviousFirstDay == 1
PreviousLastDay == 61
PointsQuantum == 8
PointsPerPound == 800
total_ticks == 22

\* Python's None, and a value that is not None.
None == [none |-> TRUE]

Some(x) == [value |-> x]

\* ------------------------------------------------------------ pure helpers
phh(hh) == hh * HalfHourMinutes

pdays(d) == d * DayMinutes

\* pendulum day_of_week: 0 = Sunday, 1 = Monday, ... 6 = Saturday.
day_of_week(t) == (((t \div DayMinutes) + 1) % 7)

weekday(day) == MONDAY <= day_of_week(day) /\ day_of_week(day) <= FRIDAY

date(t) == t \div DayMinutes

\* pendulum.period(a, b).range(unit, step): both ends included; an inverted
\* period (b before a) is walked backward from a.
period_range(a, b, step) ==
    IF a <= b
    THEN [i \in 1..((b - a) \div step + 1) |-> a + (i - 1) * step]
    ELSE [i \in 1..((a - b) \div step + 1) |-> a - (i - 1) * step]

Range(s) == {s[i] : i \in DOMAIN s}

\* ------------------------------------------------------------- remote API
\* The meter's upstream consumption data: one reading per half hour from lo
\* to hi, except on the days in gapDays.  It does not change during a run,
\* except where readings are let to arrive (SpecArrive).
HasData(up, t) == up.lo <= t /\ t <= up.hi /\ date(t) \notin up.gapDays

Value(up, t) == up.k * (1 + (((t \div HalfHourMinutes) + date(t)) % 3))

\* consumption(startAt, grouping: HALF_HOUR, first): the first `first`
\* readings at or after startAt, in chronological order.  The list of
\* readings is held as the sequence of their startAt and the map from a
\* startAt to that reading's value.
consumption(up, startAt, first) ==
    LET t0 == IF startAt < up.lo
              THEN up.lo + ((startAt - up.lo) % HalfHourMinutes)
              ELSE startAt
        span == first + (DayMinutes \div HalfHourMinutes) * Cardinality(up.gapDays)
        left == IF t0 > up.hi THEN 0 ELSE (up.hi - t0) \div HalfHourMinutes + 1
        n == IF left < span THEN left ELSE span
        slots == [j \in 1..n |-> t0 + (j - 1) * HalfHourMinutes]
        data == SelectSeq(slots, LAMBDA t : HasData(up, t))
        m == IF Len(data) < first THEN Len(data) ELSE first
        starts == SubSeq(data, 1, m)
    IN  [startAt |-> starts, value |-> [t \in Range(starts) |-> Value(up, t)]]

half_hourly_readings(up, start_at, first) == consumption(up, start_at, first)

\* ---------------------------------------------------------------- Readings
NewReadings == [requested |-> {}, hh |-> <<>>]

\* Variant: the period ends one half hour late.
half_hours_long(ts, hh) == period_range(ts, ts + phh(hh), HalfHourMinutes)

half_hours(ts, hh) == period_range(ts, ts + phh(hh - 1), HalfHourMinutes)

\* Variant: the test looks at the stored values instead of the requested set.
cached_by_values(store, ts, hh) == Range(half_hours(ts, hh)) \subseteq DOMAIN store.hh

\* Variant: the test looks at the first slot of the range only.
cached_first_slot(store, ts, hh) == ts \in store.requested

\* Variant: the test is dropped and every call fetches.
cached_never(store, ts, hh) == FALSE

cached(store, ts, hh) == Range(half_hours(ts, hh)) \subseteq store.requested

\* Variant: the window is not shortened by the periods asked for.
fetch_start_at_full(ts, hh) == ts - phh(WindowHH)

fetch_start_at(ts, hh) == ts - phh(WindowHH - hh)

fetch_first == First

\* Variant: an empty answer marks nothing.
marked_unless_empty(start_at, readings) ==
    IF Len(readings.startAt) > 0
    THEN Range(period_range(start_at, readings.startAt[Len(readings.startAt)],
                            HalfHourMinutes))
    ELSE {}

\* Variant: the slot of the last reading returned is left unmarked.
marked_before_last(start_at, readings) ==
    IF Len(readings.startAt) > 0
    THEN Range(period_range(start_at, readings.startAt[Len(readings.startAt)],
                            HalfHourMinutes))
            \ {readings.startAt[Len(readings.startAt)]}
    ELSE Range(period_range(start_at, start_at + phh(EmptySpanHH), HalfHourMinutes))

\* The slots a fetch marks as requested.
marked(start_at, readings) ==
    IF Len(readings.startAt) > 0
    THEN Range(period_range(start_at, readings.startAt[Len(readings.startAt)],
                            HalfHourMinutes))
    ELSE Range(period_range(start_at, start_at + phh(EmptySpanHH), HalfHourMinutes))

\* Variant: the map is replaced by the readings of the last fetch.
store_readings_replacing(hh, readings) == readings.value

\* for reading in readings: self.hh[reading.startAt] = reading.value
store_readings(hh, readings) == readings.value @@ hh

\* Variant: a slot without a value reads as zero (dict.get(t, 0)).
lookup_default(hh, slots) ==
    [ok |-> TRUE,
     values |-> [i \in DOMAIN slots |-> IF slots[i] \in DOMAIN hh THEN hh[slots[i]] ELSE 0]]

\* values = [self.hh[t] for t in half_hours], or ValueError("missing readings")
lookup(hh, slots) ==
    IF \A i \in DOMAIN slots : slots[i] \in DOMAIN hh
    THEN [ok |-> TRUE, values |-> [i \in DOMAIN slots |-> hh[slots[i]]]]
    ELSE [ok |-> FALSE, values |-> <<>>]

\* Readings.get_readings: the store afterwards, the result, and what was
\* asked of the API.
get_readings(store, up, ts, hh) ==
    LET hit == cached(store, ts, hh)
        start_at == fetch_start_at(ts, hh)
        readings == half_hourly_readings(up, start_at, fetch_first)
        after == IF hit THEN store
                 ELSE [requested |-> store.requested \cup marked(start_at, readings),
                       hh |-> store_readings(store.hh, readings)]
    IN  [store |-> after,
         result |-> lookup(after.hh, half_hours(ts, hh)),
         fetches |-> IF hit THEN <<>>
                     ELSE <<[start_at |-> start_at, first |-> fetch_first,
                             returned |-> readings.startAt]>>,
         raised |-> IF lookup(after.hh, half_hours(ts, hh)).ok
                    THEN "none" ELSE "ValueError"]

\* What API._request raises instead of answering: requests' HTTPError on a
\* non-success response, AuthenticationError on a rejected token, APIError
\* on any other error the service reports.
APIExceptions == {"HTTPError", "AuthenticationError", "APIError"}

APIOutcomes == {"ok"} \cup APIExceptions

\* Readings.get_readings when the API answers (api = "ok") or raises: the
\* exception leaves get_readings at the call of half_hourly_readings, before
\* requested and hh are touched.  No request is made on a cached range.
get_readings_with(store, up, ts, hh, api) ==
    IF api = "ok" \/ cached(store, ts, hh)
    THEN get_readings(store, up, ts, hh)
    ELSE [store |-> store,
          result |-> [ok |-> FALSE, values |-> <<>>],
          fetches |-> <<[start_at |-> fetch_start_at(ts, hh), first |-> fetch_first,
                         returned |-> <<>>]>>,
          raised |-> api]

\* ------------------------------------------------------------- arithmetic
\* numpy arrays of readings are sequences of integers; means are kept exact,
\* as a sequence of numerators over one positive denominator.
RECURSIVE column_sum(_, _, _)
column_sum(rows, i, n) == IF n = 0 THEN 0 ELSE rows[n][i] + column_sum(rows, i, n - 1)

RECURSIVE array_sum(_, _)
array_sum(a, n) == IF n = 0 THEN 0 ELSE a[n] + array_sum(a, n - 1)

\* np.asarray(rows).mean(axis=0)
mean_axis0(rows) ==
    [num |-> [i \in DOMAIN rows[1] |-> column_sum(rows, i, Len(rows))],
     den |-> Len(rows)]

\* self.baseline - self.baseline_export.mean(axis=0)
rational_sub(a, b) ==
    [num |-> [i \in DOMAIN a.num |-> a.num[i] * b.den - b.num[i] * a.den],
     den |-> a.den * b.den]

\* session - self.session_export
array_sub(a, b) == [i \in DOMAIN a |-> a[i] - b[i]]

\* Variant: the difference is not clipped at zero.
saved_kwh_unclipped(baseline, session) ==
    [num |-> [i \in DOMAIN baseline.num |-> baseline.num[i] - baseline.den * session[i]],
     den |-> baseline.den]

\* (self.baseline - session).clip(min=0)
saved_kwh(baseline, session) ==
    [num |-> [i \in DOMAIN baseline.num |->
                 LET d == baseline.num[i] - baseline.den * session[i]
                 IN  IF d < 0 THEN 0 ELSE d],
     den |-> baseline.den]

\* np.round(a / b) for a >= 0, b > 0: to the nearest integer, halves to even.
np_round(a, b) ==
    LET q == a \div b
        r == a % b
    IN  IF 2 * r < b THEN q
        ELSE IF 2 * r > b THEN q + 1
        ELSE IF q % 2 = 0 THEN q ELSE q + 1

\* Variant: the points are rounded to whole points only.
octopoints_unrounded(kwh, rewardPerKwhInOctoPoints) ==
    [i \in DOMAIN kwh.num |-> np_round(kwh.num[i] * rewardPerKwhInOctoPoints, kwh.den)]

\* np.round(self.kwh * self.ss.rewardPerKwhInOctoPoints / 8).astype(int) * 8
octopoints(kwh, rewardPerKwhInOctoPoints) ==
    [i \in DOMAIN kwh.num |->
        np_round(kwh.num[i] * rewardPerKwhInOctoPoints, kwh.den * PointsQuantum)
            * PointsQuantum]

\* ------------------------------------------------------------- Calculation
\* Calculation.__init__
NewCalculation(ss) ==
    [ss |-> ss, session_import |-> None, session_export |-> None,
     baseline_days |-> <<>>, baseline_import |-> None, baseline_export |-> None,
     baseline |-> None, kwh |-> None, points |-> None]

\* Variant: a weekday session asks for as many days as both kinds together.
days_required_more(ss) ==
    IF weekday(ss.startAt) THEN WeekdayDaysRequired + WeekendDaysRequired
    ELSE WeekendDaysRequired

days_required(ss) ==
    IF weekday(ss.startAt) THEN WeekdayDaysRequired ELSE WeekendDaysRequired

previous_session_days(all) == {date(all[i].startAt) : i \in DOMAIN all}

\* Variant: the period reaches one day further back.
previous_longer(ss) ==
    period_range(ss.startAt - pdays(PreviousFirstDay),
                 ss.startAt - pdays(PreviousLastDay + 1), DayMinutes)

\* Variant: the period runs forward, from the oldest day to the day before.
previous_oldest_first(ss) ==
    period_range(ss.startAt - pdays(PreviousLastDay),
                 ss.startAt - pdays(PreviousFirstDay), DayMinutes)

\* pendulum.period(startAt - 1 day, startAt - 61 days).range("days")
previous(ss) ==
    period_range(ss.startAt - pdays(PreviousFirstDay),
                 ss.startAt - pdays(PreviousLastDay), DayMinutes)

\* Variant: the days of other saving sessions are not excluded.
eligible_any_date(dt, ss, all) == weekday(dt) = weekday(ss.startAt)

\* The two `continue` tests at the head of the baseline loop.
eligible(dt, ss, all) ==
    /\ weekday(dt) = weekday(ss.startAt)
    /\ date(dt) \notin previous_session_days(all)

\* Variant: the loop breaks one day late.
scan_stops_late(days, ss) == days > days_required(ss)

\* days == days_required: break
scan_stops(days, ss) == days = days_required(ss)

\* Variant: days without complete readings give a baseline of zero (empty).
baseline_mean_zero(baseline_import, baseline_export) ==
    IF Len(baseline_import) = 0 THEN Some([num |-> <<>>, den |-> 1])
    ELSE IF Len(baseline_export) > 0
    THEN Some(rational_sub(mean_axis0(baseline_import), mean_axis0(baseline_export)))
    ELSE Some(mean_axis0(baseline_import))

\* if baseline_import: self.baseline = mean of the import rows, less the mean
\* of the export rows if baseline_export
baseline_mean(baseline_import, baseline_export) ==
    IF Len(baseline_import) = 0 THEN None
    ELSE IF Len(baseline_export) > 0
    THEN Some(rational_sub(mean_axis0(baseline_import), mean_axis0(baseline_export)))
    ELSE Some(mean_axis0(baseline_import))

\* Variant: the session's export is not taken off its import.
session_usage_gross(session_import, session_export) == session_import.value

\* session = self.session_import, less self.session_export if there is one
session_usage(session_import, session_export) ==
    IF session_export # None
    THEN array_sub(session_import.value, session_export.value)
    ELSE session_import.value

\* Variant: a missing session import counts as no usage at all.
saving_zero_import(session_import, session_export, baseline) ==
    IF baseline = None THEN None
    ELSE IF session_import = None
    THEN Some(saved_kwh(baseline.value, [i \in DOMAIN baseline.value.num |-> 0]))
    ELSE Some(saved_kwh(baseline.value, session_usage(session_import, session_export)))

\* Variant: without session export readings no saving is computed.
saving_needs_export(session_import, session_export, baseline) ==
    IF session_import = None \/ baseline = None \/ session_export = None THEN None
    ELSE Some(saved_kwh(baseline.value, session_usage(session_import, session_export)))

\* Inside `if baseline_import:`, if self.session_import is not None:
\*     self.kwh = (self.baseline - session).clip(min=0)
saving(session_import, session_export, baseline) ==
    IF session_import = None \/ baseline = None THEN None
    ELSE Some(saved_kwh(baseline.value, session_usage(session_import, session_export)))

\* The tail of calculate, after the baseline loop.
finish(c, baseline_import, baseline_export) ==
    LET some == Len(baseline_import) > 0
        baseline == baseline_mean(baseline_import, baseline_export)
        kwh == saving(c.session_import, c.session_export, baseline)
    IN  [c EXCEPT !.baseline_import = IF some THEN Some(baseline_import) ELSE None,
                  !.baseline_export = IF some /\ Len(baseline_export) > 0
                                      THEN Some(baseline_export) ELSE None,
                  !.baseline = baseline,
                  !.kwh = kwh,
                  !.points = IF kwh = None THEN None
                             ELSE Some(octopoints(kwh.value,
                                                  c.ss.rewardPerKwhInOctoPoints))]

\* Calculation.row: a dict; only the keys present in the domain exist.
row(c) ==
    LET sum(a) == array_sum(a, Len(a))
        reward == sum(c.points.value)
    IN  [k \in {"session"}
               \cup (IF c.session_import # None THEN {"import"} ELSE {})
               \cup (IF c.session_export # None THEN {"export"} ELSE {})
               \cup (IF c.baseline # None THEN {"baseline"} ELSE {})
               \cup (IF c.kwh # None THEN {"saved", "reward", "earnings"} ELSE {})
         |-> CASE k = "session" -> c.ss.startAt
               [] k = "import" -> sum(c.session_import.value)
               [] k = "export" -> sum(c.session_export.value)
               [] k = "baseline" -> [num |-> sum(c.baseline.value.num),
                                     den |-> c.baseline.value.den]
               [] k = "saved" -> [num |-> sum(c.kwh.value.num), den |-> c.kwh.value.den]
               [] k = "reward" -> reward
               [] k = "earnings" -> [num |-> reward, den |-> PointsPerPound]]

\* main: start = 0.2 + i * ticks_per_session, with ticks_per_session =
\* 0.8 / len(sessions), for the i-th of n sessions counted from 0; the end of
\* a session's share of the bar is the start of the next one's.
session_start(i, n) == [num |-> n + 4 * i, den |-> 5 * n]

\* The progress generator tick(message, start, end) of main: i is the loop
\* position, bar the last position shown, n the number of next() calls so far.
NewTick(start, end) == [start |-> start, end |-> end, i |-> 0, bar |-> None, n |-> 0]

\* start + (end - start) * i / total_ticks, start and end over one denominator
progress(start, end, i) ==
    [num |-> start.num * total_ticks + (end.num - start.num) * i,
     den |-> start.den * total_ticks]

\* Variant: the generator starts over once its steps are used up.
next_tick_restarts(t) ==
    IF t.i < total_ticks
    THEN [t EXCEPT !.i = t.i + 1, !.bar = Some(progress(t.start, t.end, t.i)),
                   !.n = t.n + 1]
    ELSE [t EXCEPT !.i = 1, !.bar = Some(progress(t.start, t.end, 0)), !.n = t.n + 1]

\* next(tick): one more step of the for loop, then of the while loop.
next_tick(t) ==
    IF t.i < total_ticks
    THEN [t EXCEPT !.i = t.i + 1, !.bar = Some(progress(t.start, t.end, t.i)),
                   !.n = t.n + 1]
    ELSE [t EXCEPT !.n = t.n + 1]

VARIABLES
    upstream_import,    \* the import meter's upstream data
    upstream_export,    \* the export meter's upstream data
    import_readings,    \* Readings(mpans[import_mpan])
    export_readings,    \* Readings(mpans[export_mpan]) or None
    sessions,           \* the saving sessions main() iterates over
    idx,                \* main: index of the session being calculated
    pc,                 \* position in main / Calculation.calculate
    calc,               \* the current Calculation object
    frame,              \* calculate's locals: loop position, days, day arrays
    ticks,              \* the current progress generator
    rows,               \* main: rows appended so far
    skipped,            \* history: baseline days skipped for missing readings
    nCalls,             \* history: get_readings calls made so far
    lastCall            \* history: the last get_readings call

storeVars == <<upstream_import, upstream_export, import_readings, export_readings>>

mainVars == <<sessions, idx, pc, calc, frame, ticks, rows, skipped>>

vars == <<storeVars, mainVars, nCalls, lastCall>>

NoCall == [op |-> "none", site |-> "none"]

\* History record of one get_readings call on `store`.
\* raised is the exception the call ended with, ticksBefore the number of
\* next(tick) calls made before it.
CallRecord(meter, site, store, ts, hh, r, n) ==
    [op |-> "get_readings", meter |-> meter, site |-> site, ts |-> ts, hh |-> hh,
     cachedBefore |-> \A j \in 0..(hh - 1) : ts + j * 30 \in store.requested,
     requestedBefore |-> store.requested,
     hhBefore |-> store.hh,
     fetches |-> r.fetches,
     result |-> r.result,
     raised |-> r.raised,
     ticksBefore |-> n]

\* ------------------------------------------------- free calls on one store
StoreStarts == {phh(100), phh(130), phh(148), phh(196)}

StorePeriods == {1, 2, WindowHH}

\* Upstream data: complete; lagging (ends at slot 140); without day 2; from
\* slot 120 on (a new meter); none at all.
StoreUpstreams ==
    { [lo |-> 0, hi |-> phh(400), gapDays |-> {}, k |-> 1],
      [lo |-> 0, hi |-> phh(140), gapDays |-> {}, k |-> 1],
      [lo |-> 0, hi |-> phh(400), gapDays |-> {2}, k |-> 2],
      [lo |-> phh(120), hi |-> phh(400), gapDays |-> {}, k |-> 1],
      [lo |-> 1, hi |-> 0, gapDays |-> {}, k |-> 1] }

NoFrame == [i |-> 0, days |-> 0, baseline_import |-> <<>>, baseline_export |-> <<>>]

InitStore ==
    /\ upstream_import \in StoreUpstreams
    /\ upstream_export = None
    /\ import_readings = NewReadings
    /\ export_readings = None
    /\ sessions = <<>>
    /\ idx = 0
    /\ pc = "store"
    /\ calc = None
    /\ frame = NoFrame
    /\ ticks = None
    /\ rows = <<>>
    /\ skipped = {}
    /\ nCalls = 0
    /\ lastCall = NoCall

StoreCall(ts, hh) ==
    /\ pc = "store"
    /\ nCalls < MaxCalls
    /\ LET r == get_readings(import_readings, upstream_import, ts, hh)
       IN  /\ import_readings' = r.store
           /\ lastCall' = CallRecord("import", "free", import_readings, ts, hh, r, 0)
    /\ nCalls' = nCalls + 1
    /\ UNCHANGED <<upstream_import, upstream_export, export_readings, mainVars>>

NextStore == \E ts \in StoreStarts, hh \in StorePeriods : StoreCall(ts, hh)

SpecStore == InitStore /\ [][NextStore]_vars

\* ------------------------------ free calls while readings arrive upstream
\* The meter's data is not settled at once: between two calls the readings
\* that were wanting may have arrived.  `before` keeps what the data was.
CompleteUpstream == [lo |-> 0, hi |-> phh(400), gapDays |-> {}, k |-> 1]

Arrive ==
    /\ pc = "store"
    /\ upstream_import.k = CompleteUpstream.k
    /\ "before" \notin DOMAIN upstream_import
    /\ \E t \in StoreStarts : ~HasData(upstream_import, t)
    /\ upstream_import' = [lo |-> CompleteUpstream.lo, hi |-> CompleteUpstream.hi,
                           gapDays |-> CompleteUpstream.gapDays,
                           k |-> CompleteUpstream.k, before |-> upstream_import]
    /\ UNCHANGED <<upstream_export, import_readings, export_readings, mainVars,
                   nCalls, lastCall>>

NextArrive == NextStore \/ Arrive

SpecArrive == InitStore /\ [][NextArrive]_vars

\* ------------------------------------------- main: one run of the pipeline
At(day, minute) == pdays(day) + minute

\* Saving sessions: a Wednesday, a Monday and a Saturday evening.
AllSessions ==
    << [code |-> "B", startAt |-> At(72, 1050), hh |-> 1, rewardPerKwhInOctoPoints |-> 1800],
       [code |-> "A", startAt |-> At(70, 1050), hh |-> 2, rewardPerKwhInOctoPoints |-> 1800],
       [code |-> "W", startAt |-> At(75, 1020), hh |-> 3, rewardPerKwhInOctoPoints |-> 2400] >>

SessionLists ==
    {SubSeq(AllSessions, i, j) : i \in 1..Len(AllSessions), j \in 1..Len(AllSessions)}

\* Upstream data: complete; ending in session A's first half hour; without
\* days 64, 66, 69; days 5 to 9 only; from day 70 on (a new meter); none at
\* all.
ImportUpstreams ==
    { [lo |-> 0, hi |-> At(80, 0), gapDays |-> {}, k |-> 2],
      [lo |-> 0, hi |-> At(70, 1050), gapDays |-> {}, k |-> 2],
      [lo |-> 0, hi |-> At(80, 0), gapDays |-> {64, 66, 69}, k |-> 2],
      [lo |-> At(5, 0), hi |-> At(9, 1410), gapDays |-> {}, k |-> 2],
      [lo |-> At(70, 0), hi |-> At(80, 0), gapDays |-> {}, k |-> 2],
      [lo |-> 1, hi |-> 0, gapDays |-> {}, k |-> 2] }

\* Export meters: complete; without day 68 and exporting more than is
\* imported; with data from day 75 on only.
ExportUpstreams ==
    { [lo |-> 0, hi |-> At(80, 0), gapDays |-> {}, k |-> 1],
      [lo |-> 0, hi |-> At(80, 0), gapDays |-> {68}, k |-> 3],
      [lo |-> At(75, 0), hi |-> At(80, 0), gapDays |-> {}, k |-> 1] }

Init ==
    /\ upstream_import \in ImportUpstreams
    /\ upstream_export \in ExportUpstreams \cup {None}
    /\ import_readings = NewReadings
    /\ export_readings = IF upstream_export = None THEN None ELSE NewReadings
    /\ sessions \in {l \in SessionLists : 1 <= Len(l) /\ Len(l) <= MaxSessions}
    /\ idx = 1
    /\ pc = "main"
    /\ calc = None
    /\ frame = NoFrame
    /\ ticks = None
    /\ rows = <<>>
    /\ skipped = {}
    /\ nCalls = 0
    /\ lastCall = NoCall

\* A get_readings call made by calculate on the import or the export store,
\* the API answering or raising.
Call(meter, site, ts, hh, api) ==
    LET store == IF meter = "import" THEN import_readings ELSE export_readings
        up == IF meter = "import" THEN upstream_import ELSE upstream_export
    IN  [r |-> get_readings_with(store, up, ts, hh, api),
         rec |-> CallRecord(meter, site, store, ts, hh,
                            get_readings_with(store, up, ts, hh, api), ticks.n)]

\* Variant: the handlers catch every exception (except Exception).
caught_all(exc) == TRUE

\* Variant: the handlers catch the API's exceptions, not ValueError.
caught_api_only(exc) == exc \in APIExceptions

\* except ValueError: the handler around each get_readings call of calculate
caught(exc) == exc = "ValueError"

\* The call ended with an exception that its handler does not catch.
escapes(r) == r.raised # "none" /\ ~caught(r.raised)

\* The exception leaves calculate and main: nothing of either runs any more.
Raise ==
    /\ pc' = "raised"
    /\ UNCHANGED <<calc, frame, ticks, skipped>>

Record(meter, c) ==
    /\ lastCall' = c.rec
    /\ nCalls' = nCalls + 1
    /\ IF meter = "import"
       THEN import_readings' = c.r.store /\ UNCHANGED export_readings
       ELSE export_readings' = c.r.store /\ UNCHANGED import_readings
    /\ UNCHANGED <<upstream_import, upstream_export>>

\* Where the baseline loop goes after an iteration: the next day, or out.
loop_pc(i, stop) == IF stop \/ i > Len(previous(calc.ss)) THEN "finish" ELSE "loop"

\* Variant: a day with missing import readings ends the scan (break).
missing_import_pc_break(i) == "finish"

\* except ValueError: ... continue
missing_import_pc(i) == loop_pc(i + 1, FALSE)

\* Variant: a day's array is put in front of the earlier ones.
accumulate_in_front(arrays, values) == <<values>> \o arrays

\* baseline_import.append(import_values), baseline_export.append(export_values)
accumulate(arrays, values) == Append(arrays, values)

\* Variant: a day without import readings advances the generator too.
after_missing_import_advances(t) == next_tick(t)

\* except ValueError: ... continue, which passes over the next(tick) below it
after_missing_import(t) == t

\* main: ticks = tick(...); calc = Calculation(ss); calculate() up to its
\* first get_readings call.
Calculate ==
    /\ pc = "main"
    /\ idx <= Len(sessions)
    /\ calc' = NewCalculation(sessions[idx])
    /\ ticks' = NewTick(session_start(idx - 1, Len(sessions)),
                        session_start(idx, Len(sessions)))
    /\ frame' = [i |-> 1, days |-> 0, baseline_import |-> <<>>, baseline_export |-> <<>>]
    /\ skipped' = {}
    /\ pc' = "session_import"
    /\ UNCHANGED <<storeVars, sessions, idx, rows, nCalls, lastCall>>

SessionImport ==
    /\ pc = "session_import"
    /\ \E api \in APIOutcomes :
         LET c == Call("import", "session_import", calc.ss.startAt, calc.ss.hh, api)
         IN  /\ Record("import", c)
             /\ IF escapes(c.r) THEN Raise
                ELSE /\ calc' = IF c.r.result.ok
                                THEN [calc EXCEPT !.session_import =
                                                      Some(c.r.result.values)]
                                ELSE calc
                     /\ ticks' = next_tick(ticks)
                     /\ pc' = "session_export"
                     /\ UNCHANGED <<frame, skipped>>
    /\ UNCHANGED <<sessions, idx, rows>>

SessionExport ==
    /\ pc = "session_export"
    /\ IF export_readings # None
       THEN \E api \in APIOutcomes :
              LET c == Call("export", "session_export", calc.ss.startAt, calc.ss.hh, api)
              IN  /\ Record("export", c)
                  /\ IF escapes(c.r) THEN Raise
                     ELSE /\ calc' = IF c.r.result.ok
                                     THEN [calc EXCEPT !.session_export =
                                                           Some(c.r.result.values)]
                                     ELSE calc
                          /\ ticks' = next_tick(ticks)
                          /\ pc' = loop_pc(frame.i, FALSE)
                          /\ UNCHANGED <<frame, skipped>>
       ELSE /\ ticks' = next_tick(ticks)
            /\ pc' = loop_pc(frame.i, FALSE)
            /\ UNCHANGED <<storeVars, calc, frame, skipped, nCalls, lastCall>>
    /\ UNCHANGED <<sessions, idx, rows>>

\* A day of the scan that is of the other kind of day, or a session's day.
BaselineSkip ==
    /\ pc = "loop"
    /\ ~eligible(previous(calc.ss)[frame.i], calc.ss, sessions)
    /\ frame' = [frame EXCEPT !.i = frame.i + 1]
    /\ pc' = loop_pc(frame.i + 1, FALSE)
    /\ UNCHANGED <<storeVars, sessions, idx, calc, ticks, rows, skipped, nCalls, lastCall>>

BaselineImport ==
    /\ pc = "loop"
    /\ \E api \in APIOutcomes :
         LET dt == previous(calc.ss)[frame.i]
             c == Call("import", "baseline_import", dt, calc.ss.hh, api)
         IN  /\ eligible(dt, calc.ss, sessions)
             /\ Record("import", c)
             /\ IF escapes(c.r) THEN Raise
                ELSE IF c.r.result.ok
                THEN /\ frame' = [frame EXCEPT !.baseline_import =
                                      accumulate(frame.baseline_import, c.r.result.values)]
                     /\ ticks' = next_tick(ticks)
                     /\ pc' = "baseline_export"
                     /\ UNCHANGED <<calc, skipped>>
                ELSE /\ frame' = [frame EXCEPT !.i = frame.i + 1]
                     /\ skipped' = skipped \cup {dt}
                     /\ pc' = missing_import_pc(frame.i)
                     /\ ticks' = after_missing_import(ticks)
                     /\ UNCHANGED calc
    /\ UNCHANGED <<sessions, idx, rows>>

BaselineExport ==
    /\ pc = "baseline_export"
    /\ LET dt == previous(calc.ss)[frame.i]
           days == frame.days + 1
           counted == /\ ticks' = next_tick(ticks)
                      /\ calc' = [calc EXCEPT !.baseline_days =
                                                  Append(calc.baseline_days, dt)]
                      /\ pc' = loop_pc(frame.i + 1, scan_stops(days, calc.ss))
                      /\ UNCHANGED skipped
       IN  IF export_readings # None
           THEN \E api \in APIOutcomes :
                  LET c == Call("export", "baseline_export", dt, calc.ss.hh, api)
                  IN  /\ Record("export", c)
                      /\ IF escapes(c.r) THEN Raise
                         ELSE /\ frame' = [frame EXCEPT
                                     !.baseline_export =
                                         IF c.r.result.ok
                                         THEN accumulate(frame.baseline_export,
                                                         c.r.result.values)
                                         ELSE frame.baseline_export,
                                     !.days = days,
                                     !.i = frame.i + 1]
                              /\ counted
           ELSE /\ frame' = [frame EXCEPT !.days = days, !.i = frame.i + 1]
                /\ counted
                /\ UNCHANGED <<storeVars, nCalls, lastCall>>
    /\ UNCHANGED <<sessions, idx, rows>>

Finish ==
    /\ pc = "finish"
    /\ calc' = finish(calc, frame.baseline_import, frame.baseline_export)
    /\ pc' = "row"
    /\ UNCHANGED <<storeVars, sessions, idx, frame, ticks, rows, skipped, nCalls, lastCall>>

\* main: calcs.append(calc); rows.append(calc.row()); the next session.
AppendRow ==
    /\ pc = "row"
    /\ rows' = Append(rows, row(calc))
    /\ idx' = idx + 1
    /\ pc' = "main"
    /\ UNCHANGED <<storeVars, sessions, calc, frame, ticks, skipped, nCalls, lastCall>>

Next ==
    \/ Calculate
    \/ SessionImport
    \/ SessionExport
    \/ BaselineSkip
    \/ BaselineImport
    \/ BaselineExport
    \/ Finish
    \/ AppendRow

Spec == Init /\ [][Next]_vars

\* ------------------------------------- the progress generator on its own
\* A consumer advancing the generator of one session, beyond its steps too.
InitTick ==
    /\ upstream_import = None
    /\ upstream_export = None
    /\ import_readings = None
    /\ export_readings = None
    /\ sessions \in SessionLists
    /\ idx \in 1..Len(sessions)
    /\ pc = "tick"
    /\ calc = None
    /\ frame = NoFrame
    /\ ticks = NewTick(session_start(idx - 1, Len(sessions)),
                       session_start(idx, Len(sessions)))
    /\ rows = <<>>
    /\ skipped = {}
    /\ nCalls = 0
    /\ lastCall = NoCall

TickAdvance ==
    /\ pc = "tick"
    /\ ticks.n < MaxAdvances
    /\ ticks' = next_tick(ticks)
    /\ UNCHANGED <<storeVars, sessions, idx, pc, calc, frame, rows, skipped, nCalls, lastCall>>

NextTick == TickAdvance

SpecTick == InitTick /\ [][NextTick]_vars

\* ====================================================== Readings: claims
\* Checked under SpecStore: any sequence of get_readings calls on one store.

\* C1: when every requested slot is already marked fetched, get_readings
\* issues no fetch, leaves the requested set and the value map unchanged,
\* answers from the stored values alone, and a repetition of the same call
\* gives the same outcome (values or missing data) as the call before it.
C1_Idempotent ==
    [][ ( /\ nCalls' = nCalls + 1
          /\ \A j \in 0..(lastCall'.hh - 1) :
                lastCall'.ts + j * 30 \in import_readings.requested )
        => /\ lastCall'.fetches = <<>>
           /\ import_readings'.requested = import_readings.requested
           /\ import_readings'.hh = import_readings.hh
           /\ lastCall'.result.ok =
                 (\A j \in 0..(lastCall'.hh - 1) :
                     lastCall'.ts + j * 30 \in DOMAIN import_readings.hh)
           /\ ( ( /\ lastCall.op = "get_readings"
                  /\ lastCall.ts = lastCall'.ts
                  /\ lastCall.hh = lastCall'.hh )
                => lastCall'.result = lastCall.result ) ]_vars

\* C1 witness: a call repeated on a fully fetched range, once answering with
\* values.
C1_Witness ==
    /\ lastCall.op = "get_readings"
    /\ lastCall.cachedBefore
    /\ lastCall.fetches = <<>>
    /\ lastCall.result.ok
    /\ nCalls >= 2

\* C2: a call fails with missing data exactly when, after its fetch step, a
\* requested slot has no stored value; a failing call carries no values.
C2_MissingData ==
    lastCall.op = "get_readings" =>
        /\ lastCall.result.ok =
              (\A j \in 0..(lastCall.hh - 1) :
                  lastCall.ts + j * 30 \in DOMAIN import_readings.hh)
        /\ (~lastCall.result.ok => lastCall.result.values = <<>>)

\* C2 witness: a call fails on a slot that is marked fetched and has no value.
C2_Witness ==
    /\ lastCall.op = "get_readings"
    /\ ~lastCall.result.ok
    /\ \E j \in 0..(lastCall.hh - 1) :
          /\ lastCall.ts + j * 30 \in import_readings.requested
          /\ lastCall.ts + j * 30 \notin DOMAIN import_readings.hh

\* C3: a call that does not fail returns exactly `periods` values, the i-th
\* being the stored value of slot start + i half hours.
C3_Values ==
    (lastCall.op = "get_readings" /\ lastCall.result.ok) =>
        /\ Len(lastCall.result.values) = lastCall.hh
        /\ \A i \in 0..(lastCall.hh - 1) :
              lastCall.result.values[i + 1] = import_readings.hh[lastCall.ts + i * 30]

\* C3 witness: a successful call for several slots whose values differ.
C3_Witness ==
    /\ lastCall.op = "get_readings"
    /\ lastCall.result.ok
    /\ lastCall.hh >= 2
    /\ lastCall.result.values[1] # lastCall.result.values[2]

\* C4 as stated: after a fetch, every slot of the 100-slot window is marked
\* fetched.
C4_WholeWindowMarked ==
    (lastCall.op = "get_readings" /\ lastCall.fetches # <<>>) =>
        \A j \in 0..99 :
            lastCall.fetches[1].start_at + j * 30 \in import_readings.requested

\* C4 amended: after a fetch that returned readings, every slot from the
\* window start to the start of the last returned reading is marked fetched;
\* after a fetch that returned none, every slot of the 100-slot window is.
C4_MarkedToLastReading ==
    (lastCall.op = "get_readings" /\ lastCall.fetches # <<>>) =>
        LET f == lastCall.fetches[1]
            n == Len(f.returned)
        IN  IF n > 0
            THEN \A t \in f.start_at..f.returned[n] :
                    (t - f.start_at) % 30 = 0 => t \in import_readings.requested
            ELSE \A j \in 0..99 : f.start_at + j * 30 \in import_readings.requested

\* C4 witness: a fetch returned readings that end before the window does, and
\* the slots after the last reading stay unmarked.
C4_Witness ==
    /\ lastCall.op = "get_readings"
    /\ lastCall.fetches # <<>>
    /\ Len(lastCall.fetches[1].returned) > 0
    /\ lastCall.fetches[1].start_at + 99 * 30 \notin import_readings.requested

\* C5 as stated: no fetch has a window containing a slot that was already
\* marked fetched.
C5_NoSlotFetchedTwice ==
    (lastCall.op = "get_readings" /\ lastCall.fetches # <<>>) =>
        \A j \in 0..99 :
            lastCall.fetches[1].start_at + j * 30 \notin lastCall.requestedBefore

\* C5 amended: a call fetches only when one of its own requested slots was
\* not yet marked fetched, and then fetches once.
C5_FetchOnlyOnMiss ==
    (lastCall.op = "get_readings" /\ lastCall.fetches # <<>>) =>
        /\ Len(lastCall.fetches) = 1
        /\ \E j \in 0..(lastCall.hh - 1) :
              lastCall.ts + j * 30 \notin lastCall.requestedBefore

\* C5 witness: a fetch whose window contains a slot fetched before.
C5_Witness ==
    /\ lastCall.op = "get_readings"
    /\ lastCall.fetches # <<>>
    /\ \E j \in 0..99 :
          lastCall.fetches[1].start_at + j * 30 \in lastCall.requestedBefore

\* C6: a call with 1 <= periods <= 100 that finds a requested slot not marked
\* fetched issues exactly one fetch, of count 100, whose window starts
\* 100 - periods half hours before start and so ends at slot
\* start + periods - 1.
C6_OneFetch ==
    ( /\ lastCall.op = "get_readings"
      /\ ~lastCall.cachedBefore
      /\ 1 <= lastCall.hh /\ lastCall.hh <= 100 )
    => /\ Len(lastCall.fetches) = 1
       /\ lastCall.fetches[1].first = 100
       /\ lastCall.fetches[1].start_at = lastCall.ts - (100 - lastCall.hh) * 30
       /\ lastCall.fetches[1].start_at + 99 * 30 = lastCall.ts + (lastCall.hh - 1) * 30

\* C6 witness: a call that found only some of its slots marked fetched.
C6_Witness ==
    /\ lastCall.op = "get_readings"
    /\ ~lastCall.cachedBefore
    /\ lastCall.hh = 2
    /\ lastCall.ts \in lastCall.requestedBefore
    /\ Len(lastCall.fetches) = 1

\* =================================================== Calculation: claims
\* Checked under Spec: main() calculating every saving session in turn.

\* C7: every day in baseline_days, and every day a baseline fetch is made
\* for, is a Monday-Friday day exactly when the session's start is, and is on
\* the date of no known session.
C7_Eligible ==
    LET monfri(t) == ((t \div 1440) % 7) < 5
        ok(t) == /\ monfri(t) = monfri(calc.ss.startAt)
                 /\ \A i \in DOMAIN sessions :
                       (t \div 1440) # (sessions[i].startAt \div 1440)
    IN  calc # None =>
           /\ \A i \in DOMAIN calc.baseline_days : ok(calc.baseline_days[i])
           /\ (pc \in {"loop", "baseline_export", "finish"}
               /\ lastCall.site \in {"baseline_import", "baseline_export"})
              => ok(lastCall.ts)

\* C7 witness: the scan used a day older than another session's day of the
\* same kind, which it left out.
C7_Witness ==
    /\ calc # None
    /\ \E i \in DOMAIN calc.baseline_days, j \in DOMAIN sessions :
          /\ sessions[j].startAt < calc.ss.startAt
          /\ calc.baseline_days[i] < sessions[j].startAt
          /\ weekday(sessions[j].startAt) = weekday(calc.ss.startAt)

\* C8 as stated: every baseline day fetched or used is the session start
\* minus k days with 1 <= k <= 60.
C8_Within60Days ==
    LET ok(t) == \E k \in 1..60 : t = calc.ss.startAt - k * 1440
    IN  calc # None =>
           /\ \A i \in DOMAIN calc.baseline_days : ok(calc.baseline_days[i])
           /\ (pc \in {"loop", "baseline_export", "finish"}
               /\ lastCall.site \in {"baseline_import", "baseline_export"})
              => ok(lastCall.ts)

\* C8 amended: every baseline day fetched or used is the session start minus
\* k days with 1 <= k <= 61; day t-62 is never fetched or used.
C8_Within61Days ==
    LET ok(t) == \E k \in 1..61 : t = calc.ss.startAt - k * 1440
    IN  calc # None =>
           /\ \A i \in DOMAIN calc.baseline_days : ok(calc.baseline_days[i])
           /\ (pc \in {"loop", "baseline_export", "finish"}
               /\ lastCall.site \in {"baseline_import", "baseline_export"})
              => ok(lastCall.ts)

\* C8 witness: day t-61 is in baseline_days.
C8_Witness ==
    /\ calc # None
    /\ \E i \in DOMAIN calc.baseline_days :
          calc.baseline_days[i] = calc.ss.startAt - 61 * 1440

\* C9: baseline_days never holds more than the target (10 for a Monday-Friday
\* session, 4 otherwise), and once it holds the target this calculation makes
\* no further get_readings call.
C9_Target ==
    [][ LET target(c) == IF ((c.ss.startAt \div 1440) % 7) < 5 THEN 10 ELSE 4
        IN  /\ calc' # None => Len(calc'.baseline_days) <= target(calc')
            /\ (calc # None /\ Len(calc.baseline_days) = target(calc))
               => nCalls' = nCalls ]_vars

\* C9 witness: a weekday session's scan reached its ten days.
C9_Witness ==
    /\ calc # None
    /\ weekday(calc.ss.startAt)
    /\ Len(calc.baseline_days) = 10
    /\ pc = "finish"

\* C10: a baseline day whose import readings are missing is not added to
\* baseline_days, adds no array, does not count toward the target and does
\* not end the scan, which goes on to the next older day while one is left.
C10_SkippedDay ==
    [][ ( /\ nCalls' = nCalls + 1
          /\ lastCall'.site = "baseline_import"
          /\ lastCall'.raised = "ValueError" )
        => /\ calc' = calc
           /\ frame'.baseline_import = frame.baseline_import
           /\ frame'.baseline_export = frame.baseline_export
           /\ frame'.days = frame.days
           /\ frame'.i = frame.i + 1
           /\ pc' = IF frame.i + 1 <= 61 THEN "loop" ELSE "finish" ]_vars

\* C10 witness: after a skipped day the scan went on and used an older day.
C10_Witness ==
    /\ calc # None
    /\ \E d \in skipped, i \in DOMAIN calc.baseline_days : calc.baseline_days[i] < d

\* ============================================= Calculation: missing data
\* C11: a get_readings call of calculate that fails with missing data never
\* ends calculate: the failure is caught where the call is made, the quantity
\* asked for stays absent (no session array is set, no day array is added, a
\* day without import readings is not listed) and calculate goes on with its
\* next step; only an exception of the API ever leaves calculate.
C11_MissingDataCaught ==
    [][ /\ ( /\ nCalls' = nCalls + 1
             /\ lastCall'.raised = "ValueError" )
           => /\ pc' # "raised"
              /\ lastCall'.site = "session_import"
                    => calc'.session_import = [none |-> TRUE] /\ pc' = "session_export"
              /\ lastCall'.site = "session_export"
                    => calc'.session_export = [none |-> TRUE] /\ pc' \in {"loop", "finish"}
              /\ lastCall'.site = "baseline_import"
                    => /\ frame'.baseline_import = frame.baseline_import
                       /\ calc'.baseline_days = calc.baseline_days
                       /\ pc' \in {"loop", "finish"}
              /\ lastCall'.site = "baseline_export"
                    => /\ frame'.baseline_export = frame.baseline_export
                       /\ pc' \in {"loop", "finish"}
        /\ pc' = "raised"
           => lastCall'.raised \in {"HTTPError", "AuthenticationError", "APIError"} ]_vars

\* C11 witness: a calculation ran to its end although its session import and
\* the import of a baseline day both failed with missing data.
C11_Witness ==
    /\ pc = "row"
    /\ calc.session_import = None
    /\ skipped # {}
    /\ calc.baseline_days # <<>>

\* C12: when the session import failed with missing data and at least one
\* baseline day was found, calculate has run the scan to its end, no failure
\* was raised, and the row appended for the session holds the baseline sum
\* but no import, saved, reward or earnings entry.
C12_BaselineWithoutImport ==
    ( /\ pc = "main"
      /\ calc # [none |-> TRUE]
      /\ calc.session_import = [none |-> TRUE]
      /\ Len(calc.baseline_days) >= 1 )
    => LET r == rows[Len(rows)]
       IN  /\ r.session = calc.ss.startAt
           /\ "baseline" \in DOMAIN r
           /\ r.baseline.num = array_sum(calc.baseline.value.num,
                                         Len(calc.baseline.value.num))
           /\ DOMAIN r \cap {"import", "saved", "reward", "earnings"} = {}

\* C12 witness: a row with a baseline sum for a session whose import readings
\* were missing.
C12_Witness ==
    /\ pc = "main"
    /\ calc # None
    /\ calc.session_import = None
    /\ Len(calc.baseline_days) >= 1
    /\ "baseline" \in DOMAIN rows[Len(rows)]

C14_NonNegative ==
    (calc # [none |-> TRUE] /\ calc.kwh # [none |-> TRUE])
    => /\ calc.kwh.value.den > 0
       /\ \A i \in DOMAIN calc.kwh.value.num : calc.kwh.value.num[i] >= 0

\* C14 witness: a saving computed from a baseline with a negative element,
\* and one where the session's usage exceeds the baseline.
C14_Witness ==
    /\ calc # None
    /\ calc.kwh # None
    /\ \E i \in DOMAIN calc.baseline.value.num : calc.baseline.value.num[i] < 0
    /\ \E i \in DOMAIN calc.kwh.value.num :
          calc.baseline.value.num[i] <
             calc.baseline.value.den *
                 (calc.session_import.value[i]
                  - IF calc.session_export # None THEN calc.session_export.value[i] ELSE 0)

\* C15: every per-half-hour points value computed by calculate is a multiple
\* of 8, and the reward of a row, the sum of the session's points, satisfies
\* reward mod 8 = 0.
C15_MultipleOf8 ==
    /\ (calc # [none |-> TRUE] /\ calc.points # [none |-> TRUE])
          => \A i \in DOMAIN calc.points.value : calc.points.value[i] % 8 = 0
    /\ \A j \in DOMAIN rows :
          "reward" \in DOMAIN rows[j] => rows[j].reward % 8 = 0
    /\ (pc = "main" /\ calc # [none |-> TRUE] /\ calc.points # [none |-> TRUE])
          => rows[Len(rows)].reward =
                array_sum(calc.points.value, Len(calc.points.value))

\* C15 witness: a row with a positive reward for a saving whose points, before
\* rounding, are not a multiple of 8 in some half hour.
C15_Witness ==
    /\ pc = "main"
    /\ calc # None
    /\ calc.points # None
    /\ rows[Len(rows)].reward > 0
    /\ \E i \in DOMAIN calc.kwh.value.num :
          (calc.kwh.value.num[i] * calc.ss.rewardPerKwhInOctoPoints)
              % (calc.kwh.value.den * 8) # 0

\* ===================================================== progress generator
\* C16 as stated: the generator is advanced right after every get_readings
\* call of calculate that returned values or failed with missing data, and
\* exactly one advance lies between a call and the next call of the same
\* calculation.
C16_OneAdvancePerCall ==
    [][ /\ ( /\ nCalls' = nCalls + 1
             /\ lastCall'.raised \in {"none", "ValueError"} )
           => ticks'.n = ticks.n + 1
        /\ ( /\ nCalls' = nCalls + 1
             /\ pc # "session_import" )
           => ticks.n = lastCall.ticksBefore + 1 ]_vars

\* C16: the generator is advanced once right after the session import call,
\* the session export call, a baseline day's import call that returned values
\* and that day's export call, whether these returned values or failed with
\* missing data; a baseline day's import call that fails with missing data is
\* followed by no advance.  Without an export meter the two export steps make
\* no call and still advance the generator, so two advances lie between one
\* call and the next.
C16_AdvancePerStep ==
    [][ /\ ( /\ nCalls' = nCalls + 1
             /\ lastCall'.raised \in {"none", "ValueError"} )
           => ticks'.n = ticks.n +
                 ( IF lastCall'.site = "baseline_import" /\ lastCall'.raised = "ValueError"
                   THEN 0 ELSE 1 )
        /\ ( /\ nCalls' = nCalls + 1
             /\ pc # "session_import" )
           => ticks.n = lastCall.ticksBefore +
                 ( IF lastCall.site = "baseline_import" /\ lastCall.raised = "ValueError"
                   THEN 0
                   ELSE IF export_readings = [none |-> TRUE] THEN 2 ELSE 1 )
        /\ ( /\ nCalls' = nCalls
             /\ pc \notin {"main", "tick"}
             /\ ticks' # ticks )
           => /\ export_readings = [none |-> TRUE]
              /\ pc \in {"session_export", "baseline_export"}
              /\ ticks'.n = ticks.n + 1 ]_vars

\* C16 witness: with an export meter, a baseline day's import call has failed
\* with missing data, no advance followed it, and the scan is at its next day.
C16_Witness ==
    /\ pc = "loop"
    /\ export_readings # None
    /\ lastCall.site = "baseline_import"
    /\ lastCall.raised = "ValueError"
    /\ ticks.n = lastCall.ticksBefore
    /\ ticks.n > 2

\* C17: the generator can always be advanced; its first 22 advances show the
\* positions of the bar in turn, and after them every further advance changes
\* nothing but the count of advances: the position shown stays the one of the
\* 22nd step.
C17_NoOpBeyondBudget ==
    [][ /\ ticks.n < MaxAdvances => ENABLED TickAdvance
        /\ ticks'.n = ticks.n + 1
           => /\ ticks.n < 22
                 => /\ ticks'.i = ticks.i + 1
                    /\ ticks'.bar # ticks.bar
              /\ ticks.n >= 22
                 => /\ ticks'.i = ticks.i
                    /\ ticks'.bar = ticks.bar
                    /\ ticks'.bar.value.num * ticks.start.den * 22
                          = (ticks.start.num * 22 + (ticks.end.num - ticks.start.num) * 21)
                               * ticks'.bar.value.den ]_vars

\* C17 witness: a generator advanced three times more than it has steps.
C17_Witness ==
    /\ pc = "tick"
    /\ ticks.n = 25
    /\ ticks.i = 22
    /\ ticks.bar # None

\* ============================================================ API failures
\* C18: an exception of the API (HTTPError, AuthenticationError, APIError)
\* raised by the fetch of a get_readings call is caught neither by
\* get_readings nor by calculate: calculate and main end there, with no
\* advance of the generator, no change of the calculation and no row, and the
\* store that was called has the requested set and the value map it had
\* before the call; the other store is untouched as well.
C18_APIFailurePropagates ==
    [][ /\ ( /\ nCalls' = nCalls + 1
             /\ lastCall'.raised \in {"HTTPError", "AuthenticationError", "APIError"} )
           => /\ pc' = "raised"
              /\ lastCall'.fetches # <<>>
              /\ import_readings' = import_readings
              /\ export_readings' = export_readings
              /\ LET store == IF lastCall'.meter = "import" THEN import_readings'
                              ELSE export_readings'
                 IN  /\ store.requested = lastCall'.requestedBefore
                     /\ store.hh = lastCall'.hhBefore
              /\ calc' = calc /\ ticks' = ticks /\ rows' = rows /\ idx' = idx
        /\ pc = "raised" => FALSE ]_vars

\* C18 witness: the API failed during a baseline day's call, on a store that
\* held readings of earlier fetches, and the run ended there.
C18_Witness ==
    /\ pc = "raised"
    /\ lastCall.raised = "AuthenticationError"
    /\ lastCall.site \in {"baseline_import", "baseline_export"}
    /\ lastCall.requestedBefore # {}
    /\ lastCall.hhBefore # <<>>

\* ================================================ Calculation: the result
\* C19: after calculate has completed, the baseline is present exactly when
\* baseline_days is not empty; kwh and points are both present or both
\* absent, and present exactly when the session import and the baseline are
\* present, whether or not session export or baseline export arrays exist.
C19_Availability ==
    ( /\ calc # [none |-> TRUE]
      /\ pc \in {"row", "main"} )
    => LET no == [none |-> TRUE]
       IN  /\ (calc.baseline # no) = (Len(calc.baseline_days) > 0)
           /\ (calc.baseline_import # no) = (Len(calc.baseline_days) > 0)
           /\ (calc.kwh # no) = (calc.points # no)
           /\ (calc.kwh # no) = (calc.session_import # no /\ calc.baseline # no)

\* C19 witness: kwh and points are present for a session with export
\* readings while no baseline day had any.
C19_Witness ==
    /\ pc = "row"
    /\ calc.kwh # None
    /\ calc.points # None
    /\ calc.session_export # None
    /\ calc.baseline_export = None
    /\ export_readings # None

\* C20 as stated: with an export meter, after calculate the import rows, the
\* export rows (when there are any) and baseline_days have the same length,
\* row i of each holds the readings of day i, and every listed day has export
\* readings for the session's half hours as well as import readings.
C20_RowsAligned ==
    ( /\ calc # [none |-> TRUE]
      /\ pc \in {"row", "main"}
      /\ export_readings # [none |-> TRUE] )
    => LET days == calc.baseline_days
           slots == 1..calc.ss.hh
           at(d, j) == d + (j - 1) * 30
       IN  /\ Len(frame.baseline_import) = Len(days)
           /\ \A i \in DOMAIN days :
                 /\ frame.baseline_import[i]
                       = [j \in slots |-> Value(upstream_import, at(days[i], j))]
                 /\ \A j \in slots : HasData(upstream_import, at(days[i], j))
                 /\ \A j \in slots : HasData(upstream_export, at(days[i], j))
           /\ Len(frame.baseline_export) > 0
                 => /\ Len(frame.baseline_export) = Len(days)
                    /\ \A i \in DOMAIN days :
                          frame.baseline_export[i]
                             = [j \in slots |-> Value(upstream_export, at(days[i], j))]

\* C20: with an export meter, after calculate the import rows and
\* baseline_days have the same length and import row i holds the import
\* readings of day i; the export rows are the export readings of those listed
\* days that have export readings for all the session's half hours, in the
\* order of the days, so there can be fewer export rows than days, or none.
C20_ImportRowsAligned ==
    ( /\ calc # [none |-> TRUE]
      /\ pc \in {"row", "main"}
      /\ export_readings # [none |-> TRUE] )
    => LET days == calc.baseline_days
           slots == 1..calc.ss.hh
           at(d, j) == d + (j - 1) * 30
           exported == SelectSeq(days, LAMBDA d :
                           \A j \in slots : HasData(upstream_export, at(d, j)))
       IN  /\ Len(frame.baseline_import) = Len(days)
           /\ \A i \in DOMAIN days :
                 /\ frame.baseline_import[i]
                       = [j \in slots |-> Value(upstream_import, at(days[i], j))]
                 /\ \A j \in slots : HasData(upstream_import, at(days[i], j))
           /\ Len(frame.baseline_export) = Len(exported)
           /\ \A i \in DOMAIN exported :
                 frame.baseline_export[i]
                    = [j \in slots |-> Value(upstream_export, at(exported[i], j))]
           /\ calc.baseline_import
                 = IF Len(days) > 0 THEN [value |-> frame.baseline_import]
                   ELSE [none |-> TRUE]
           /\ calc.baseline_export
                 = IF Len(days) > 0 /\ Len(exported) > 0
                   THEN [value |-> frame.baseline_export]
                   ELSE [none |-> TRUE]

\* C20 witness: four listed days, and three export rows since the second day
\* has no export readings: export row 2 holds the readings of day 3.
C20_Witness ==
    /\ pc = "row"
    /\ export_readings # None
    /\ Len(calc.baseline_days) = 4
    /\ Len(frame.baseline_export) = 3
    /\ ~HasData(upstream_export, calc.baseline_days[2])
    /\ frame.baseline_export[2][1] = Value(upstream_export, calc.baseline_days[3])

\* ================================================= Readings: more claims
\* C21 as stated: under every get_readings call the requested set only
\* grows, every stored value stays as it is, and a slot that is marked
\* requested and has no value does not get one.
C21_Final ==
    [][ /\ import_readings.requested \subseteq import_readings'.requested
        /\ DOMAIN import_readings.hh \subseteq DOMAIN import_readings'.hh
        /\ \A t \in DOMAIN import_readings.hh :
              import_readings'.hh[t] = import_readings.hh[t]
        /\ \A t \in import_readings.requested \ DOMAIN import_readings.hh :
              t \notin DOMAIN import_readings'.hh ]_vars

\* C21: under every get_readings call the requested set only grows and every
\* stored value stays as it is; a slot that is marked requested and has no
\* value gets one only when its reading has arrived upstream since the meter
\* was first asked (a later fetch whose window covers the slot then stores
\* it), and never while the upstream data is what it was.
C21_FinalWhileUnchanged ==
    [][ /\ import_readings.requested \subseteq import_readings'.requested
        /\ DOMAIN import_readings.hh \subseteq DOMAIN import_readings'.hh
        /\ \A t \in DOMAIN import_readings.hh :
              import_readings'.hh[t] = import_readings.hh[t]
        /\ \A t \in import_readings.requested \ DOMAIN import_readings.hh :
              t \in DOMAIN import_readings'.hh
                 => /\ "before" \in DOMAIN upstream_import
                    /\ ~ ( /\ upstream_import.before.lo <= t
                           /\ t <= upstream_import.before.hi
                           /\ (t \div 1440) \notin upstream_import.before.gapDays ) ]_vars

\* C21 witness: a call has stored a value for a slot that was already marked
\* requested, without a value, before the call.
C21_Witness ==
    /\ lastCall.op = "get_readings"
    /\ \E t \in lastCall.requestedBefore \ DOMAIN lastCall.hhBefore :
          t \in DOMAIN import_readings.hh

\* ================================================ Calculation: the calls
\* C22: the get_readings calls of one calculate come in a fixed order: the
\* session import first; then the session export, made only with an export
\* meter; then the baseline days, each older than the one before and at the
\* session's time of day, the import call of a day before its export call,
\* which is made only when the import call returned values.  The first call
\* for a session is made when the rows of all sessions before it have been
\* appended, so the calculations never interleave.
C22_CallOrder ==
    [][ ( /\ nCalls' = nCalls + 1
          /\ pc # "store" )
        => LET new == lastCall'
               old == lastCall
               meter == export_readings # [none |-> TRUE]
               failed(c) == c.site = "baseline_import" /\ c.raised = "ValueError"
           IN  /\ new.site \in {"session_import", "session_export",
                                "baseline_import", "baseline_export"}
               /\ new.meter = IF new.site \in {"session_import", "baseline_import"}
                              THEN "import" ELSE "export"
               /\ new.meter = "export" => meter
               /\ new.hh = calc.ss.hh
               /\ new.site = "session_import"
                     => /\ new.ts = sessions[idx].startAt
                        /\ calc.ss = sessions[idx]
                        /\ Len(rows) = idx - 1
               /\ new.site = "session_export"
                     => /\ old.site = "session_import"
                        /\ new.ts = old.ts
               /\ new.site = "baseline_import"
                     => /\ new.ts < calc.ss.startAt
                        /\ (calc.ss.startAt - new.ts) % 1440 = 0
                        /\ old.site = IF failed(old) THEN "baseline_import"
                                      ELSE IF old.site \in {"session_import", "session_export"}
                                      THEN (IF meter THEN "session_export"
                                            ELSE "session_import")
                                      ELSE (IF meter THEN "baseline_export"
                                            ELSE "baseline_import")
                        /\ old.site \in {"session_import", "session_export"}
                              => old.ts = calc.ss.startAt
                        /\ old.site \in {"baseline_import", "baseline_export"}
                              => new.ts < old.ts
               /\ new.site = "baseline_export"
                     => /\ old.site = "baseline_import"
                        /\ old.raised = "none"
                        /\ new.ts = old.ts ]_vars

\* C22 witness: the second session's calculation, after the first one's row
\* was appended, has reached the export call of its second baseline day.
C22_Witness ==
    /\ idx = 2
    /\ Len(rows) = 1
    /\ lastCall.site = "baseline_export"
    /\ Len(calc.baseline_days) = 2
    /\ calc.baseline_days[2] < calc.baseline_days[1]
    /\ lastCall.ts = calc.baseline_days[2]

\* ================================================ Calculation: the saving
\* C23: when the session import and a baseline are present after calculate,
\* the saved energy of half hour i is max(0, baseline[i] - (session_import[i]
\* - session_export[i])), with session_export[i] read as 0 when the session
\* export is absent (no export meter, or its fetch failed).
C23_SavedEnergy ==
    ( /\ calc # [none |-> TRUE]
      /\ pc \in {"row", "main"}
      /\ calc.session_import # [none |-> TRUE]
      /\ calc.baseline # [none |-> TRUE] )
    => LET b == calc.baseline.value
           export(i) == IF calc.session_export = [none |-> TRUE] THEN 0
                        ELSE calc.session_export.value[i]
           net(i) == b.num[i] - b.den * (calc.session_import.value[i] - export(i))
       IN  /\ calc.kwh # [none |-> TRUE]
           /\ calc.kwh.value.den = b.den
           /\ DOMAIN calc.kwh.value.num = 1..calc.ss.hh
           /\ \A i \in 1..calc.ss.hh :
                 calc.kwh.value.num[i] = IF net(i) > 0 THEN net(i) ELSE 0

\* C23 witness: a positive saving computed with the session's export taken
\* off, and (in another half hour or not) one that is zero.
C23_Witness ==
    /\ pc = "row"
    /\ calc.kwh # None
    /\ calc.session_export # None
    /\ \E i \in DOMAIN calc.kwh.value.num :
          /\ calc.kwh.value.num[i] > 0
          /\ calc.session_export.value[i] > 0
    /\ \E i \in DOMAIN calc.kwh.value.num : calc.kwh.value.num[i] = 0

\* =============================================== Readings: transparency
\* C24: with the upstream data unchanged, a get_readings call on a store that
\* earlier calls have filled ends as the same call on a new, empty store: with
\* the same values, or with missing data; the values are the upstream
\* readings of the slots asked for, and data is missing exactly when one of
\* these slots has no upstream reading.
C24_CacheTransparent ==
    [][ nCalls' = nCalls + 1
        => LET ts == lastCall'.ts
               hh == lastCall'.hh
               fresh == get_readings([requested |-> {}, hh |-> <<>>],
                                     upstream_import, ts, hh)
               slot(j) == ts + (j - 1) * 30
           IN  /\ lastCall'.result = fresh.result
               /\ lastCall'.raised = fresh.raised
               /\ lastCall'.result.ok
                     = (\A j \in 1..hh : HasData(upstream_import, slot(j)))
               /\ lastCall'.result.ok
                     => lastCall'.result.values
                           = [j \in 1..hh |-> Value(upstream_import, slot(j))] ]_vars

\* C24 witness: a call for two half hours answered with values from the
\* store, without a fetch, after two earlier calls.
C24_Witness ==
    /\ nCalls = 3
    /\ lastCall.fetches = <<>>
    /\ import_readings.requested # {}
    /\ lastCall.hh = 2
    /\ lastCall.result.ok

\* ============================================ progress generator: budget
\* C25: a calculate that has completed has advanced the generator exactly
\* 2 + 2 * (number of days in baseline_days) times, which is at most 22, the
\* number of steps of the generator; no advance of a calculation falls past
\* these steps, so each one has moved the bar.
C25_AdvancesWithinBudget ==
    /\ (calc # [none |-> TRUE] /\ pc \in {"row", "main"})
          => /\ ticks.n = 2 + 2 * Len(calc.baseline_days)
             /\ ticks.n <= 22
    /\ (calc # [none |-> TRUE] /\ pc # "tick")
          => /\ ticks.n <= 22
             /\ ticks.i = ticks.n

\* C25 witness: a calculation completed with ten baseline days and 22
\* advances, after days without import readings were passed over.
C25_Witness ==
    /\ pc = "row"
    /\ Len(calc.baseline_days) = 10
    /\ ticks.n = 22
    /\ skipped # {}

\* ================================================ Readings: the two maps
\* C26: in every state of a store reached by get_readings calls, every slot
\* that has a stored value is marked requested.
C26_ValuesAreMarked ==
    \A t \in DOMAIN import_readings.hh : t \in import_readings.requested

\* C26 witness: after two calls the store holds values, all of them for
\* marked slots, and marked slots without a value besides.
C26_Witness ==
    /\ nCalls >= 2
    /\ DOMAIN import_readings.hh # {}
    /\ import_readings.requested \ DOMAIN import_readings.hh # {}
    /\ lastCall.fetches # <<>>
    /\ lastCall.fetches[1].returned # <<>>

====
